---- MODULE Spec2Model ----
(***************************************************************************)
(* Data Scout (scan.py): a briefing generator that polls RSS feeds and      *)
(* CKAN catalogues, drops the items its seen store already holds, has an    *)
(* external service score the rest, renders a page and saves the store.     *)
(*                                                                          *)
(* Time is counted in hours.  An optional Python value (None, a missing     *)
(* dict key) is a sequence: <<>> when absent, <<v>> when present.  A JSON   *)
(* value is a record tagged by its type in field t.  Free-text fields that  *)
(* no decision of the program reads (summary_raw, summary, location,        *)
(* category) are left out of the item records.                              *)
(***************************************************************************)
EXTENDS Integers, Sequences, FiniteSets, TLC

VARIABLES
    clock,          \* datetime.now(timezone.utc), in hours; a run is shorter
                    \* than an hour, so all its readings of the clock agree
    state_file,     \* STATE_FILE on disk: <<>> when missing, else <<mapping>>
    archive,        \* stems of the files in ARCHIVE_DIR (dates, in days)
    pc,             \* position of main()
    err,            \* exception that ended the run, "" when none
    net,            \* sources and services a request was sent to in this run
    cutoff_dt,      \* main: cutoff_dt
    seen,           \* main: seen
    rss_items,      \* main: rss_items
    ckan_items,     \* main: ckan_items
    all_items,      \* main: all_items
    scored_items,   \* main: scored_items
    page,           \* what build_html_page rendered and wrote in this run
    runs,           \* number of invocations started
    rss_resp,       \* what the feeds answered (kept by the fetch specification)
    ckan_resp,      \* what the catalogues answered (same)
    gemini_resp,    \* what the ranking service answered (filter specification)
    recorded,       \* history: ids that a run wrote to the seen store and
                    \* that every run since has met in a source
    sighted         \* history: ids met in a source during this run

vars == <<clock, state_file, archive, pc, err, net, cutoff_dt, seen, rss_items,
          ckan_items, all_items, scored_items, page, runs, rss_resp, ckan_resp,
          gemini_resp, recorded, sighted>>

-----------------------------------------------------------------------------
(* Configuration *)

RSS_FEEDS == <<"ProPublica">>

CANADIAN_RSS_FEEDS == <<"CBC Business">>

\* {**RSS_FEEDS, **CANADIAN_RSS_FEEDS}: the international feeds first
AllFeeds == RSS_FEEDS \o CANADIAN_RSS_FEEDS

MIN_RSS_ITEMS == 10

MAX_FEED_ENTRIES == 20

CKAN_APIS == <<"Toronto Open Data", "Canada Open Data">>

base_url == [s \in {"Toronto Open Data", "Canada Open Data"} |->
                IF s = "Toronto Open Data" THEN "https://open.toronto.ca/dataset"
                ELSE "https://open.canada.ca/data/en/dataset"]

HOURS_LOOKBACK == 48

PRUNE_DAYS == 14

HoursPerDay == 24

ARCHIVE_VISIBLE == 30

PLACEHOLDER_KEY == "PASTE_YOUR_GEMINI_API_KEY_HERE"

-----------------------------------------------------------------------------
(* Generic helpers *)

Range(s) == {s[i] : i \in DOMAIN s}

Min(a, b) == IF a < b THEN a ELSE b

Prefix(s, n) == SubSeq(s, 1, Min(n, Len(s)))

Restrict(f, S) == [k \in S |-> f[k]]

\* index of the first largest key
FirstMax(keys) ==
    CHOOSE i \in DOMAIN keys :
        /\ \A j \in DOMAIN keys : keys[j] <= keys[i]
        /\ \A j \in 1..(i - 1) : keys[j] < keys[i]

Remove(s, i) == SubSeq(s, 1, i - 1) \o SubSeq(s, i + 1, Len(s))

RECURSIVE SortDesc(_, _)
\* list.sort(key=..., reverse=True) of s, keys[i] being the key of s[i]:
\* descending, elements with equal keys keep their order
SortDesc(s, keys) ==
    IF s = <<>> THEN <<>>
    ELSE LET i == FirstMax(keys)
         IN  <<s[i]>> \o SortDesc(Remove(s, i), Remove(keys, i))

-----------------------------------------------------------------------------
(* Timestamps *)

\* datetime.isoformat() of a UTC time: the date, then the time of day; two
\* such strings are compared field by field, as Python compares strings
isoformat(t) == <<t \div HoursPerDay, t % HoursPerDay>>

StrGreater(a, b) == a[1] > b[1] \/ (a[1] = b[1] /\ a[2] > b[2])

\* strftime("%Y-%m-%d")
DateStr(t) == t \div HoursPerDay

-----------------------------------------------------------------------------
(* State store *)

\* load_state: the mapping in STATE_FILE, {} when the file is missing
load_state(file) == IF file = <<>> THEN <<>> ELSE file[1]

\* the cutoff save_state computes at time now
PruneCutoff(now) == isoformat(now - PRUNE_DAYS * HoursPerDay)

\* save_state without the pruning
save_state_unpruned(seen_map, now) == seen_map

\* the mapping save_state writes at time now: {k: v for k, v in seen.items() if v > cutoff}
save_state(seen_map, now) ==
    Restrict(seen_map, {k \in DOMAIN seen_map : StrGreater(seen_map[k], PruneCutoff(now))})

-----------------------------------------------------------------------------
(* Feed fetcher *)

\* hashlib.md5(f"{title}|{link}"), taken to be free of collisions
item_id(title, link) == title \o "|" \o link

\* str.strip() on the strings of the model: blank ones become empty, the
\* others carry no surrounding white space
strip(str) == IF str \in {"", " "} THEN "" ELSE str

\* parse_feed_date: published_parsed, else updated_parsed, else None
parse_feed_date(entry) ==
    IF entry.published_parsed # <<>> THEN entry.published_parsed
    ELSE entry.updated_parsed

\* the item dict built in the loop of fetch_rss_feeds
RssItem(source_name, entry) ==
    [id |-> item_id(strip(entry.title), strip(entry.link)),
     title |-> strip(entry.title),
     link |-> strip(entry.link),
     source |-> source_name,
     is_canadian_data |-> source_name \in Range(CANADIAN_RSS_FEEDS),
     _pub_date |-> parse_feed_date(entry)]

\* a fetch that drops what a feed gave before it raised
IteratedOrNothing(resp) ==
    IF resp.fail = <<>> THEN Prefix(resp.entries, MAX_FEED_ENTRIES) ELSE <<>>

\* the entries the loop over feed.entries[:20] goes through before the
\* try block is left: all of them, or those before the one that raised
\* (none when the request or the parse raised)
Iterated(resp) ==
    IF resp.fail = <<>> THEN Prefix(resp.entries, MAX_FEED_ENTRIES)
    ELSE Prefix(Prefix(resp.entries, MAX_FEED_ENTRIES), resp.fail[1])

RECURSIVE ScanEntries(_, _, _, _, _)
\* the body of "for entry in feed.entries[:20]" over entries, acc being
\* [recent |-> recent_items, backfill |-> backfill_items]
ScanEntries(source_name, entries, cutoff, seen_map, acc) ==
    IF entries = <<>> THEN acc
    ELSE LET entry == Head(entries)
             item == RssItem(source_name, entry)
             next ==
                 IF item.title = "" \/ item.link = "" THEN acc
                 ELSE IF item.id \in DOMAIN seen_map THEN acc
                 ELSE IF item._pub_date = <<>> \/ item._pub_date[1] >= cutoff
                      THEN [acc EXCEPT !.recent = Append(@, item)]
                      ELSE [acc EXCEPT !.backfill = Append(@, item)]
         IN  ScanEntries(source_name, Tail(entries), cutoff, seen_map, next)

RECURSIVE ScanFeeds(_, _, _, _, _)
\* the loop over the feeds: an exception in one feed is caught and the loop
\* goes on with the next
ScanFeeds(feeds, resp, cutoff, seen_map, acc) ==
    IF feeds = <<>> THEN acc
    ELSE ScanFeeds(Tail(feeds), resp, cutoff, seen_map,
                   ScanEntries(Head(feeds), Iterated(resp[Head(feeds)]),
                               cutoff, seen_map, acc))

\* datetime.min, the sort key of an item without a date
DatetimeMin == -999999

SortKey(item) == IF item._pub_date = <<>> THEN DatetimeMin ELSE item._pub_date[1]

\* the backfill candidates left in feed order
SortBackfillSkipped(items) == items

\* backfill_items.sort(key=..., reverse=True)
SortBackfill(items) == SortDesc(items, [i \in DOMAIN items |-> SortKey(items[i])])

\* recent_items after the backfill step
Backfilled(recent, backfill) ==
    IF Len(recent) < MIN_RSS_ITEMS
    THEN recent \o Prefix(SortBackfill(backfill), MIN_RSS_ITEMS - Len(recent))
    ELSE recent

\* item.pop("_pub_date", None)
CleanUp(item) == [k \in DOMAIN item \ {"_pub_date"} |-> item[k]]

fetch_rss_feeds(cutoff, seen_map, resp) ==
    LET acc == ScanFeeds(AllFeeds, resp, cutoff, seen_map,
                         [recent |-> <<>>, backfill |-> <<>>])
        kept == Backfilled(acc.recent, acc.backfill)
    IN  [i \in DOMAIN kept |-> CleanUp(kept[i])]

-----------------------------------------------------------------------------
(* Dataset fetcher *)

\* name = pkg.get("name", pkg.get("id", ""))
PkgName(pkg) ==
    IF pkg.name # <<>> THEN pkg.name[1]
    ELSE IF pkg.id # <<>> THEN pkg.id[1] ELSE ""

\* the title: raw_title = pkg.get("title", name); of a bilingual dict the
\* English value, else the French one, else name
PkgTitle(pkg) ==
    IF pkg.title = <<>> THEN PkgName(pkg)
    ELSE LET raw_title == pkg.title[1]
         IN  IF raw_title.t = "dict"
             THEN IF raw_title.en # <<>> THEN raw_title.en[1]
                  ELSE IF raw_title.fr # <<>> THEN raw_title.fr[1]
                  ELSE PkgName(pkg)
             ELSE raw_title.v

CkanItem(source_name, pkg) ==
    LET link == base_url[source_name] \o "/" \o PkgName(pkg)
    IN  [id |-> item_id(PkgTitle(pkg), link),
         title |-> PkgTitle(pkg),
         link |-> link,
         source |-> source_name,
         is_canadian_data |-> TRUE]

\* the packages the loop goes through before the try block is left
IteratedPkgs(resp) ==
    IF resp.fail = <<>> THEN resp.packages
    ELSE Prefix(resp.packages, resp.fail[1])

RECURSIVE ScanPackages(_, _, _, _)
ScanPackages(source_name, packages, seen_map, items) ==
    IF packages = <<>> THEN items
    ELSE LET item == CkanItem(source_name, Head(packages))
         IN  ScanPackages(source_name, Tail(packages), seen_map,
                          IF item.id \in DOMAIN seen_map THEN items
                          ELSE Append(items, item))

RECURSIVE ScanCatalogs(_, _, _, _)
ScanCatalogs(apis, resp, seen_map, items) ==
    IF apis = <<>> THEN items
    ELSE ScanCatalogs(Tail(apis), resp, seen_map,
                      ScanPackages(Head(apis), IteratedPkgs(resp[Head(apis)]),
                                   seen_map, items))

\* cutoff only goes into the query sent to the catalogue
fetch_ckan_updates(cutoff, seen_map, resp) == ScanCatalogs(CKAN_APIS, resp, seen_map, <<>>)

-----------------------------------------------------------------------------
(* Relevance filter *)

JInt(n) == [t |-> "int", v |-> n]

JStr(str) == [t |-> "str", v |-> str]

JNull == [t |-> "null"]

\* a JSON object of the scored array; a key that is missing is <<>>
JObj(index, score, why) ==
    [t |-> "object", index |-> index, score |-> score, why |-> why]

\* whether the try block ends without an exception: the call returned, the
\* text had a line break after an opening code fence (text.split("\n", 1)[1])
\* and what was left was JSON
Parsed(response) ==
    /\ response.kind = "text"
    /\ response.fence # "unbroken"
    /\ response.body # <<>>

\* a fallback that numbers the items from 1
FallbackFromOne(items) ==
    [t |-> "array",
     v |-> [i \in DOMAIN items |-> JObj(<<JInt(i)>>, <<JInt(3)>>, <<"">>)]]

\* the except branch: every item at the default score
FallbackScored(items) ==
    [t |-> "array",
     v |-> [i \in DOMAIN items |-> JObj(<<JInt(i - 1)>>, <<JInt(3)>>, <<"">>)]]

\* whether "for s in scored" can go through scored: a list, a dict (its
\* keys) or a string (its characters)
Iterable(scored) == scored.t \in {"array", "object", "str"}

\* what "for s in scored" goes through
Elements(scored) ==
    CASE scored.t = "array" -> scored.v
      [] scored.t = "object" ->
            (IF scored.index # <<>> THEN <<JStr("index")>> ELSE <<>>)
            \o (IF scored.score # <<>> THEN <<JStr("score")>> ELSE <<>>)
            \o (IF scored.why # <<>> THEN <<JStr("why")>> ELSE <<>>)
      [] scored.t = "str" -> [i \in 1..Len(scored.v) |-> JStr("c")]

\* the exception one pass of the merge loop raises on s, "" when none
MergeError(s, n) ==
    IF s.t # "object" THEN "AttributeError"           \* s.get
    ELSE IF s.index = <<>> THEN ""
    ELSE LET idx == s.index[1]
         IN  CASE idx.t \in {"null", "int", "bool"} -> ""
               [] idx.t = "float" ->                   \* items[idx]
                     IF 0 <= idx.v /\ idx.v < n THEN "TypeError" ELSE ""
               [] OTHER -> "TypeError"                 \* 0 <= idx

\* the index one pass of the merge loop looks up, <<>> when it appends nothing
MergeIndex(s, n) ==
    IF s.index = <<>> THEN <<>>
    ELSE LET idx == s.index[1]
             i == CASE idx.t = "int" -> idx.v
                    [] idx.t = "bool" -> (IF idx.v THEN 1 ELSE 0)
                    [] OTHER -> -1
         IN  IF idx.t \in {"int", "bool"} /\ 0 <= i /\ i < n THEN <<i>> ELSE <<>>

\* items[idx].copy() with the fields of s merged in
Scored(item, s) ==
    [id |-> item.id, title |-> item.title, link |-> item.link,
     source |-> item.source, is_canadian_data |-> item.is_canadian_data,
     why |-> IF s.why = <<>> THEN "" ELSE s.why[1],
     score |-> IF s.score = <<>> THEN JInt(3) ELSE s.score[1]]

RECURSIVE MergeLoop(_, _, _)
MergeLoop(elems, items, results) ==
    IF elems = <<>> THEN [error |-> "", results |-> results]
    ELSE LET s == Head(elems)
             e == MergeError(s, Len(items))
             at == MergeIndex(s, Len(items))
         IN  IF e # "" THEN [error |-> e, results |-> <<>>]
             ELSE MergeLoop(Tail(elems), items,
                            IF at = <<>> THEN results
                            ELSE Append(results, Scored(items[at[1] + 1], s)))

\* the merge after the try block; an exception here is not caught
Merge(scored, items) ==
    IF ~Iterable(scored)
    THEN [error |-> "TypeError", results |-> <<>>]
    ELSE MergeLoop(Elements(scored), items, <<>>)

\* filter_with_gemini: [error, results], error "" when it returns
filter_with_gemini(items, response) ==
    IF items = <<>> THEN [error |-> "", results |-> <<>>]
    ELSE Merge(IF Parsed(response) THEN response.body[1] ELSE FallbackScored(items),
               items)

-----------------------------------------------------------------------------
(* Page builder *)

\* whether Python orders the score against an int (a bool is an int)
Numeric(score) == score.t \in {"int", "float", "bool"}

\* twice the score: a float [t |-> "float", v |-> n] stands for n + 0.5
Twice(score) ==
    CASE score.t = "int" -> 2 * score.v
      [] score.t = "float" -> 2 * score.v + 1
      [] score.t = "bool" -> (IF score.v THEN 2 ELSE 0)

ScoreAtLeast(item, n) == Twice(item.score) >= 2 * n

ScoreIs(item, n) == Twice(item.score) = 2 * n

\* items.sort(key=lambda x: x["score"], reverse=True)
SortByScore(items) == SortDesc(items, [i \in DOMAIN items |-> Twice(items[i].score)])

\* top_stories before the sort
TopStories(scored) ==
    LET top == SelectSeq(scored, LAMBDA i : ScoreAtLeast(i, 4) /\ ~i.is_canadian_data)
        extras == SortByScore(SelectSeq(scored, LAMBDA i :
                      /\ ScoreAtLeast(i, 3)
                      /\ ~i.is_canadian_data
                      /\ i \notin Range(top)))
    IN  IF Len(top) < 2 THEN top \o Prefix(extras, 2 - Len(top)) ELSE top

CanadianData(scored) ==
    SelectSeq(scored, LAMBDA i : i.is_canadian_data /\ ScoreAtLeast(i, 3))

\* worth_a_look without the check against top_ids
WorthALookAll(scored) ==
    SelectSeq(scored, LAMBDA i : ScoreIs(i, 3) /\ ~i.is_canadian_data)

WorthALook(scored) ==
    LET top_ids == {i.id : i \in Range(TopStories(scored))}
    IN  SelectSeq(scored, LAMBDA i :
            ScoreIs(i, 3) /\ ~i.is_canadian_data /\ i.id \notin top_ids)

\* item["size"] = size
Sized(item, size) ==
    [k \in DOMAIN item \cup {"size"} |-> IF k = "size" THEN size ELSE item[k]]

\* the card sizes, by position in the sorted section
TopSizes(items) ==
    [i \in DOMAIN items |->
        Sized(items[i], IF i = 1 THEN "lead" ELSE IF i <= 3 THEN "mid" ELSE "compact")]

CanadianSizes(items) ==
    [i \in DOMAIN items |-> Sized(items[i], IF i <= 2 THEN "mid" ELSE "compact")]

WorthSizes(items) == [i \in DOMAIN items |-> Sized(items[i], "compact")]

\* get_archive_dates: the stems of the archive, newest first, at most 30
get_archive_dates(stems) ==
    LET all == CHOOSE q \in [1..Cardinality(stems) -> stems] :
                   \A i, j \in DOMAIN q : i < j => q[i] > q[j]
    IN  Prefix(all, ARCHIVE_VISIBLE)

\* the sections and the archive links build_html_page renders
Rendered(scored, today_str, stems) ==
    [top_stories |-> TopSizes(SortByScore(TopStories(scored))),
     canadian_data |-> CanadianSizes(SortByScore(CanadianData(scored))),
     worth_a_look |-> WorthSizes(SortByScore(WorthALook(scored))),
     source_count |-> Len(RSS_FEEDS) + Len(CANADIAN_RSS_FEEDS) + Len(CKAN_APIS),
     archive_dates |-> SelectSeq(get_archive_dates(stems), LAMBDA d : d # today_str)]

\* build_html_page up to the render: the first comparison of a score that
\* is no number raises TypeError
build_html_page(scored, today_str, stems) ==
    IF \E i \in DOMAIN scored : ~Numeric(scored[i].score)
    THEN [error |-> "TypeError", html |-> <<>>]
    ELSE [error |-> "", html |-> <<Rendered(scored, today_str, stems)>>]

\* setup_gemini: whether a key is found, in the key file or else in the
\* environment (a missing file or variable is <<>>)
KeyFound(key_file, env_key) ==
    LET from_file == IF key_file = <<>> THEN ""
                     ELSE IF strip(key_file[1]) = PLACEHOLDER_KEY THEN ""
                     ELSE strip(key_file[1])
        api_key == IF from_file # "" THEN from_file
                   ELSE IF env_key = <<>> THEN "" ELSE env_key[1]
    IN  api_key # ""

-----------------------------------------------------------------------------
(* What the outside world may answer *)

MaxRuns == 3

\* hours between two invocations: a little under a day, or PRUNE_DAYS to the hour
Gaps == {HoursPerDay - 1, PRUNE_DAYS * HoursPerDay}

Entry(title, link, published, updated) ==
    [title |-> title, link |-> link,
     published_parsed |-> published, updated_parsed |-> updated]

eHavens == Entry("Tax havens", "https://pp.org/havens", <<-10>>, <<>>)

eArchive == Entry("From the archive", "https://pp.org/old", <<-100>>, <<-90>>)

eBudget == Entry("Budget day", "https://cbc.ca/budget", <<>>, <<>>)

eTeaser == Entry("Teaser", " ", <<>>, <<-10>>)

Pkg(name, id, title) == [name |-> name, id |-> id, title |-> title]

pTransit == Pkg(<<"ttc-ridership">>, <<"8f3a">>, <<JStr("TTC ridership")>>)

pCensus == Pkg(<<>>, <<"c41d">>,
               <<[t |-> "dict", en |-> <<>>, fr |-> <<"Recensement">>]>>)

\* what a feed answers, and where its processing raises: nowhere (<<>>), or
\* after k entries went through (<<k>>; <<0>> when the request itself fails)
FeedAnswer(entries, fail) == [entries |-> entries, fail |-> fail]

CatalogAnswer(packages, fail) == [packages |-> packages, fail |-> fail]

\* the feeds during a run: all up, ProPublica down, CBC raising at its
\* second entry
RunFeedAnswers ==
    {[s \in Range(AllFeeds) |->
        IF s = "ProPublica" THEN FeedAnswer(<<eArchive, eHavens>>, pp)
        ELSE FeedAnswer(<<eTeaser, eBudget>>, cbc)] :
     pp \in {<<>>, <<0>>}, cbc \in {<<>>, <<1>>}}

\* the catalogues during a run: each up or down
RunCatalogAnswers ==
    {[s \in Range(CKAN_APIS) |->
        IF s = "Toronto Open Data" THEN CatalogAnswer(<<pTransit>>, to)
        ELSE CatalogAnswer(<<pCensus>>, ca)] :
     to \in {<<>>, <<0>>}, ca \in {<<>>, <<0>>}}

\* a well-formed scoring of n items, all at score sc
AllScored(n, sc) ==
    [t |-> "array", v |-> [i \in 1..n |-> JObj(<<JInt(i - 1)>>, <<sc>>, <<"why">>)]]

Text(fence, body) == [kind |-> "text", fence |-> fence, body |-> body]

Raised == [kind |-> "raise", fence |-> "none", body |-> <<>>]

\* what the ranking service may answer to a prompt of n items during a run
RunAnswers(n) ==
    {Raised,
     Text("fenced", <<AllScored(n, JInt(4))>>),
     Text("none", <<AllScored(n, JNull)>>),
     Text("none", <<JObj(<<JInt(0)>>, <<>>, <<>>)>>)}

KeyFiles == {<<>>, <<PLACEHOLDER_KEY>>, <<"AIza-file ">>}

EnvKeys == {<<>>, <<"">>, <<"AIza-env">>}

-----------------------------------------------------------------------------
(* main(), one invocation after the other *)

NoResp == <<>>

Init ==
    /\ clock = 0
    /\ state_file = <<>>
    /\ archive = {}
    /\ pc = "start"
    /\ err = ""
    /\ net = {}
    /\ cutoff_dt = 0
    /\ seen = <<>>
    /\ rss_items = <<>>
    /\ ckan_items = <<>>
    /\ all_items = <<>>
    /\ scored_items = <<>>
    /\ page = <<>>
    /\ runs = 1
    /\ rss_resp = NoResp
    /\ ckan_resp = NoResp
    /\ gemini_resp = NoResp
    /\ recorded = {}
    /\ sighted = {}

\* whether the loop gets past "if not title or not link: continue"
Titled(entry) == strip(entry.title) # "" /\ strip(entry.link) # ""

\* the ids of the entries a fetch met, seen or not
MetInFeeds(resp) ==
    UNION {{RssItem(s, e).id : e \in {x \in Range(Iterated(resp[s])) : Titled(x)}} :
           s \in Range(AllFeeds)}

MetInCatalogs(resp) ==
    UNION {{CkanItem(s, p).id : p \in Range(IteratedPkgs(resp[s]))} : s \in Range(CKAN_APIS)}

\* an exception that leaves main
Crash(e) ==
    /\ pc' = "crashed"
    /\ err' = e

\* lines 385-393
LoadState ==
    /\ pc = "start"
    /\ cutoff_dt' = clock - HOURS_LOOKBACK
    /\ seen' = load_state(state_file)
    /\ pc' = "fetch_rss"
    /\ UNCHANGED <<clock, state_file, archive, err, net, rss_items, ckan_items,
                   all_items, scored_items, page, runs, rss_resp, ckan_resp,
                   gemini_resp, recorded, sighted>>

\* rss_items = fetch_rss_feeds(cutoff_dt, seen), the feeds answering resp
FetchRssFrom(resp) ==
    /\ rss_items' = fetch_rss_feeds(cutoff_dt, seen, resp)
    /\ sighted' = sighted \cup MetInFeeds(resp)
    /\ net' = net \cup Range(AllFeeds)
    /\ pc' = "fetch_ckan"
    /\ UNCHANGED <<clock, state_file, archive, err, cutoff_dt, seen, ckan_items,
                   all_items, scored_items, page, runs, ckan_resp, gemini_resp,
                   recorded>>

FetchRss ==
    /\ pc = "fetch_rss"
    /\ \E resp \in RunFeedAnswers : FetchRssFrom(resp) /\ UNCHANGED rss_resp

\* ckan_items = fetch_ckan_updates(cutoff_dt, seen); all_items = rss_items + ckan_items
FetchCkanFrom(resp) ==
    /\ ckan_items' = fetch_ckan_updates(cutoff_dt, seen, resp)
    /\ sighted' = sighted \cup MetInCatalogs(resp)
    /\ all_items' = rss_items \o ckan_items'
    /\ net' = net \cup Range(CKAN_APIS)
    /\ pc' = "evaluate"
    /\ UNCHANGED <<clock, state_file, archive, err, cutoff_dt, seen, rss_items,
                   scored_items, page, runs, rss_resp, gemini_resp, recorded>>

FetchCkan ==
    /\ pc = "fetch_ckan"
    /\ \E resp \in RunCatalogAnswers : FetchCkanFrom(resp) /\ UNCHANGED ckan_resp

\* the render and the two write_text calls; any of them may raise OSError
WritePage(scored) ==
    LET built == build_html_page(scored, DateStr(clock), archive)
    IN  IF built.error # ""
        THEN Crash(built.error) /\ UNCHANGED <<page, archive>>
        ELSE \/ /\ page' = built.html
                /\ archive' = archive \cup {DateStr(clock)}
                /\ pc' = "mark"
                /\ err' = err
             \/ Crash("OSError") /\ UNCHANGED <<page, archive>>

\* if not all_items: build_html_page([], today_str)
BuildEmpty ==
    /\ pc = "evaluate"
    /\ all_items = <<>>
    /\ WritePage(<<>>)
    /\ UNCHANGED <<clock, state_file, net, cutoff_dt, seen, rss_items, ckan_items,
                   all_items, scored_items, runs, rss_resp, ckan_resp, gemini_resp,
                   recorded, sighted>>

\* client = setup_gemini()
SetupGemini ==
    /\ pc = "evaluate"
    /\ all_items # <<>>
    /\ \E key_file \in KeyFiles, env_key \in EnvKeys :
        IF KeyFound(key_file, env_key)
        THEN pc' = "filter" /\ err' = err
        ELSE Crash("ValueError")
    /\ UNCHANGED <<clock, state_file, archive, net, cutoff_dt, seen, rss_items,
                   ckan_items, all_items, scored_items, page, runs, rss_resp,
                   ckan_resp, gemini_resp, recorded, sighted>>

\* scored_items = filter_with_gemini(client, all_items), the service
\* answering response; no request goes out for an empty list
FilterFrom(response) ==
    /\ LET out == filter_with_gemini(all_items, response)
       IN  IF out.error # ""
           THEN Crash(out.error) /\ UNCHANGED scored_items
           ELSE /\ scored_items' = out.results
                /\ pc' = "build"
                /\ err' = err
    /\ net' = IF all_items = <<>> THEN net ELSE net \cup {"gemini"}
    /\ UNCHANGED <<clock, state_file, archive, cutoff_dt, seen, rss_items,
                   ckan_items, all_items, page, runs, rss_resp, ckan_resp,
                   recorded, sighted>>

Filter ==
    /\ pc = "filter"
    /\ \E response \in RunAnswers(Len(all_items)) :
        FilterFrom(response) /\ UNCHANGED gemini_resp

\* seen after "for item in all_items: seen[item["id"]] = now_iso"
Marked(seen_map, items, now) ==
    LET ids == {items[i].id : i \in DOMAIN items}
    IN  [k \in DOMAIN seen_map \cup ids |->
            IF k \in ids THEN isoformat(now) ELSE seen_map[k]]

\* a build that saves the seen store before it writes the page
BuildSavingFirst ==
    /\ pc = "build"
    /\ WritePage(scored_items)
    /\ state_file' = <<save_state(Marked(seen, all_items, clock), clock)>>
    /\ UNCHANGED <<clock, net, cutoff_dt, seen, rss_items, ckan_items, all_items,
                   scored_items, runs, rss_resp, ckan_resp, gemini_resp,
                   recorded, sighted>>

\* build_html_page(scored_items, today_str)
Build ==
    /\ pc = "build"
    /\ WritePage(scored_items)
    /\ UNCHANGED <<clock, state_file, net, cutoff_dt, seen, rss_items, ckan_items,
                   all_items, scored_items, runs, rss_resp, ckan_resp, gemini_resp,
                   recorded, sighted>>

\* lines 421-425
MarkAndSave ==
    /\ pc = "mark"
    /\ seen' = Marked(seen, all_items, clock)
    /\ state_file' = <<save_state(seen', clock)>>
    /\ recorded' = (recorded \cap sighted) \cup {all_items[i].id : i \in DOMAIN all_items}
    /\ pc' = "done"
    /\ UNCHANGED <<clock, archive, err, net, cutoff_dt, rss_items, ckan_items,
                   all_items, scored_items, page, runs, rss_resp, ckan_resp,
                   gemini_resp, sighted>>

\* the scheduler starts the script again, whether the last run ended or crashed
NextRun ==
    /\ pc \in {"done", "crashed"}
    /\ runs < MaxRuns
    /\ \E gap \in Gaps : clock' = clock + gap
    /\ runs' = runs + 1
    /\ pc' = "start"
    /\ err' = ""
    /\ net' = {}
    /\ cutoff_dt' = 0
    /\ seen' = <<>>
    /\ rss_items' = <<>>
    /\ ckan_items' = <<>>
    /\ all_items' = <<>>
    /\ scored_items' = <<>>
    /\ page' = <<>>
    /\ sighted' = {}
    /\ recorded' = IF pc = "done" THEN recorded ELSE recorded \cap sighted
    /\ UNCHANGED <<state_file, archive, rss_resp, ckan_resp, gemini_resp>>

Next ==
    \/ LoadState
    \/ FetchRss
    \/ FetchCkan
    \/ BuildEmpty
    \/ SetupGemini
    \/ Filter
    \/ Build
    \/ MarkAndSave
    \/ NextRun

Spec == Init /\ [][Next]_vars

-----------------------------------------------------------------------------
(* The two fetches on their own, over wider answers *)

MaxFresh == 11

BoundedSeq(S, n) == UNION {[1..k -> S] : k \in 0..n}

\* n entries inside the lookback window of a run at hour 0
Fresh(n) ==
    [i \in 1..n |-> Entry("Story " \o ToString(i),
                          "https://pp.org/s" \o ToString(i), <<-i>>, <<>>)]

eOlder == Entry("Long read", "https://pp.org/long", <<>>, <<-200>>)

eRecap == Entry("Week in review", "https://cbc.ca/recap", <<-60>>, <<>>)

eRerun == Entry("Rerun", "https://cbc.ca/rerun", <<-100>>, <<>>)

pParks == Pkg(<<"parks">>, <<"7e1b">>,
              <<[t |-> "dict", en |-> <<"Parks">>, fr |-> <<"Parcs">>]>>)

pTrade == Pkg(<<"trade">>, <<>>, <<>>)

\* where the processing of k entries may raise
FailPoints(k) == {<<>>, <<0>>} \cup {<<j>> : j \in {1, k - 1} \cap 1..(k - 1)}

ProPublicaAnswers ==
    {FeedAnswer(Fresh(n) \o old, f) :
        n \in 0..MaxFresh,
        old \in {<<>>, <<eArchive, eOlder>>, <<eOlder, eArchive>>},
        f \in {<<>>, <<0>>, <<1>>}}

CbcAnswers ==
    UNION {{FeedAnswer(e, f) : f \in FailPoints(Len(e))} :
           e \in {<<>>, <<eTeaser, eBudget>>, <<eRecap, eBudget>>, <<eRerun, eRecap>>}}

FetchFeedAnswers ==
    {[s \in Range(AllFeeds) |-> IF s = "ProPublica" THEN pp ELSE cbc] :
     pp \in {a \in ProPublicaAnswers : a.fail = <<>> \/ a.fail[1] = 0
                                        \/ a.fail[1] < Len(a.entries)},
     cbc \in CbcAnswers}

FetchCatalogAnswers ==
    {[s \in Range(CKAN_APIS) |-> IF s = "Toronto Open Data" THEN to ELSE ca] :
     to \in UNION {{CatalogAnswer(e, f) : f \in FailPoints(Len(e))} :
                   e \in {<<pTransit>>, <<pParks, pTransit>>}},
     ca \in UNION {{CatalogAnswer(e, f) : f \in FailPoints(Len(e))} :
                   e \in {<<>>, <<pCensus, pTrade>>}}}

\* a seen store that holds the given entries and packages since yesterday
SeenOf(entries, pkgs) ==
    LET ids == {RssItem("ProPublica", e).id : e \in entries}
               \cup {CkanItem("Toronto Open Data", q).id : q \in pkgs}
    IN  [k \in ids |-> isoformat(-HoursPerDay)]

FetchSeens == {SeenOf({}, {}), SeenOf({eArchive} \cup Range(Fresh(1)), {pTransit})}

InitFetch ==
    /\ clock = 0
    /\ seen \in FetchSeens
    /\ state_file = IF DOMAIN seen = {} THEN <<>> ELSE <<seen>>
    /\ recorded = DOMAIN seen
    /\ archive = IF DOMAIN seen = {} THEN {} ELSE {DateStr(-HoursPerDay)}
    /\ pc = "fetch_rss"
    /\ err = ""
    /\ net = {}
    /\ cutoff_dt = clock - HOURS_LOOKBACK
    /\ rss_items = <<>>
    /\ ckan_items = <<>>
    /\ all_items = <<>>
    /\ scored_items = <<>>
    /\ page = <<>>
    /\ runs = 1
    /\ rss_resp = NoResp
    /\ ckan_resp = NoResp
    /\ gemini_resp = NoResp
    /\ sighted = {}

FetchRssKept ==
    /\ pc = "fetch_rss"
    /\ \E resp \in FetchFeedAnswers : FetchRssFrom(resp) /\ rss_resp' = resp

FetchCkanKept ==
    /\ pc = "fetch_ckan"
    /\ \E resp \in FetchCatalogAnswers : FetchCkanFrom(resp) /\ ckan_resp' = resp

NextFetch == FetchRssKept \/ FetchCkanKept

SpecFetch == InitFetch /\ [][NextFetch]_vars

-----------------------------------------------------------------------------
(* The relevance filter on its own, over wider answers *)

MaxItems == 3

MaxElems == 2

JFloat(n) == [t |-> "float", v |-> n]

JBool(b) == [t |-> "bool", v |-> b]

AllUpFeeds ==
    [s \in Range(AllFeeds) |->
        IF s = "ProPublica" THEN FeedAnswer(Fresh(MaxItems), <<>>)
        ELSE FeedAnswer(<<eBudget>>, <<>>)]

AllUpCatalogs ==
    [s \in Range(CKAN_APIS) |->
        IF s = "Toronto Open Data" THEN CatalogAnswer(<<pTransit>>, <<>>)
        ELSE CatalogAnswer(<<>>, <<>>)]

\* the values an "index" key may hold in an answer to n items
IndexValues(n) ==
    {<<>>, <<JNull>>, <<JInt(-1)>>, <<JInt(0)>>, <<JInt(n - 1)>>, <<JInt(n)>>,
     <<JStr("0")>>, <<JFloat(0)>>, <<JFloat(n)>>, <<JBool(TRUE)>>}

ScoredElems(n) ==
    {JObj(ix, sw[1], sw[2]) :
        ix \in IndexValues(n),
        sw \in {<< <<>>, <<>> >>, << <<JInt(5)>>, <<"data angle">> >>,
                << <<JNull>>, <<"">> >>}}
    \cup {JInt(7), JNull, JStr("x"), [t |-> "array", v |-> <<>>]}

\* what the ranking service may answer to a prompt of n items
FilterAnswers(n) ==
    {Raised, Text("none", <<>>), Text("fenced", <<>>),
     Text("unbroken", <<AllScored(n, JInt(4))>>)}
    \cup {Text(f, <<[t |-> "array", v |-> a]>>) :
            f \in {"none"}, a \in BoundedSeq(ScoredElems(n), MaxElems)}
    \cup {Text("fenced", <<j>>) :
            j \in {AllScored(n, JInt(4)), JNull, JInt(3), JBool(TRUE), JStr(""),
                   JStr("ok"), JObj(<<>>, <<>>, <<>>), JObj(<<JInt(0)>>, <<JInt(4)>>, <<>>)}}

InitFilter ==
    /\ clock = 0
    /\ seen = <<>>
    /\ state_file = <<>>
    /\ recorded = {}
    /\ archive = {}
    /\ pc = "filter"
    /\ err = ""
    /\ net = Range(AllFeeds) \cup Range(CKAN_APIS)
    /\ cutoff_dt = clock - HOURS_LOOKBACK
    /\ \E n \in 0..MaxItems, m \in 0..1 :
        /\ n + m > 0
        /\ rss_items = Prefix(fetch_rss_feeds(cutoff_dt, seen, AllUpFeeds), n)
        /\ ckan_items = Prefix(fetch_ckan_updates(cutoff_dt, seen, AllUpCatalogs), m)
    /\ all_items = rss_items \o ckan_items
    /\ sighted = {all_items[i].id : i \in DOMAIN all_items}
    /\ scored_items = <<>>
    /\ page = <<>>
    /\ runs = 1
    /\ rss_resp = NoResp
    /\ ckan_resp = NoResp
    /\ gemini_resp = NoResp

FilterKept ==
    /\ pc = "filter"
    /\ \E response \in FilterAnswers(Len(all_items)) :
        FilterFrom(response) /\ gemini_resp' = response

NextFilter == FilterKept

SpecFilter == InitFilter /\ [][NextFilter]_vars

-----------------------------------------------------------------------------
(* The page builder on its own, over any scored list *)

MaxScored == 3

PageItem(id, canadian, score) ==
    [id |-> id, title |-> id, link |-> "https://x.org/" \o id,
     source |-> IF canadian THEN "CBC Business" ELSE "ProPublica",
     is_canadian_data |-> canadian, why |-> "", score |-> score]

PageItems ==
    {PageItem(id, c, JInt(sc)) : id \in {"a", "b", "c"}, c \in BOOLEAN, sc \in 2..4}
    \cup {PageItem("a", FALSE, JInt(5)), PageItem("c", FALSE, JNull)}

\* the fetched item a scored item is a copy of
Unscored(item) == [k \in DOMAIN item \ {"why", "score"} |-> item[k]]

InitPage ==
    /\ clock = 0
    /\ seen = <<>>
    /\ state_file = <<>>
    /\ recorded = {}
    /\ archive \in {{}, {DateStr(-HoursPerDay), DateStr(0)}}
    /\ pc = "build"
    /\ err = ""
    /\ net = Range(AllFeeds) \cup Range(CKAN_APIS) \cup {"gemini"}
    /\ cutoff_dt = clock - HOURS_LOOKBACK
    /\ scored_items \in BoundedSeq(PageItems, MaxScored)
    /\ all_items = [i \in DOMAIN scored_items |-> Unscored(scored_items[i])]
    /\ all_items # <<>>
    /\ rss_items = all_items
    /\ ckan_items = <<>>
    /\ sighted = {all_items[i].id : i \in DOMAIN all_items}
    /\ page = <<>>
    /\ runs = 1
    /\ rss_resp = NoResp
    /\ ckan_resp = NoResp
    /\ gemini_resp = NoResp

NextPage == Build

SpecPage == InitPage /\ [][NextPage]_vars

-----------------------------------------------------------------------------
(* Properties of the runs *)

\* the ids of a list of items
Ids(items) == {items[i].id : i \in DOMAIN items}

\* the hour an isoformat string names
HoursOf(stamp) == stamp[1] * HoursPerDay + stamp[2]

\* C1: once a run has written an id to the seen store, no fetch of a later
\* run returns an item with that id, the item being in its source in every
\* run since.  (When pc is "done" the run has just written the ids of its own
\* items, so the fetches compared are those of the runs after the one that
\* recorded the id.)
C1_RecordedNeverFetchedAgain ==
    pc # "done" => (Ids(rss_items) \cup Ids(ckan_items)) \cap recorded = {}

\* C4: the missing-credential error is raised before any request is sent
C4_CredentialErrorBeforeNetwork ==
    err = "ValueError" => net = {}

\* C8: after save_state the file holds no entry stamped more than 14 days
\* before the save, and holds every entry of the in-memory mapping stamped
\* less than 14 days before it, unchanged
C8_SavedStoreIsPruned ==
    pc = "done" =>
        /\ state_file # <<>>
        /\ \A k \in DOMAIN state_file[1] :
              HoursOf(state_file[1][k]) >= clock - PRUNE_DAYS * HoursPerDay
        /\ \A k \in DOMAIN seen :
              HoursOf(seen[k]) > clock - PRUNE_DAYS * HoursPerDay
                 => k \in DOMAIN state_file[1] /\ state_file[1][k] = seen[k]

\* a save that dropped an old entry and kept a newer one
C8_Witness ==
    /\ pc = "done"
    /\ \E k \in DOMAIN seen : k \notin DOMAIN state_file[1]
    /\ DOMAIN state_file[1] # {}

\* C9: until its final step a run leaves the seen store as it was loaded, the
\* final step comes after the page and the archive copy are written, and a
\* run that ends with an error has marked none of its items seen
C9_AbortedRunLeavesStore ==
    /\ pc \notin {"start", "done"} => load_state(state_file) = seen
    /\ pc = "crashed" => Ids(all_items) \cap DOMAIN load_state(state_file) = {}
    /\ pc \in {"mark", "done"} => page # <<>> /\ DateStr(clock) \in archive

\* a run that fetched items and then ended with an error, a store on disk
C9_Witness ==
    /\ pc = "crashed"
    /\ all_items # <<>>
    /\ state_file # <<>>
    /\ DOMAIN state_file[1] # {}

\* C10: after a completed run, every id of the store that the run met in a
\* source carries the time of that run
C10_StampIsLastSighting ==
    pc = "done" =>
        \A k \in DOMAIN state_file[1] \cap sighted :
            state_file[1][k] = isoformat(clock)

-----------------------------------------------------------------------------
(* Properties of the fetches *)

\* the entries of feed s handled before its processing stopped
HandledEntries(s) ==
    LET a == rss_resp[s]
        first == SubSeq(a.entries, 1, Min(MAX_FEED_ENTRIES, Len(a.entries)))
    IN  IF a.fail = <<>> THEN first ELSE SubSeq(first, 1, a.fail[1])

HandledPkgs(s) ==
    LET a == ckan_resp[s]
    IN  IF a.fail = <<>> THEN a.packages ELSE SubSeq(a.packages, 1, a.fail[1])

InWindow(e) == parse_feed_date(e) = <<>> \/ parse_feed_date(e)[1] >= cutoff_dt

\* the ids of the handled entries of feed s that are titled and unseen
EligibleIds(s) ==
    {RssItem(s, e).id :
        e \in {x \in Range(HandledEntries(s)) :
                  Titled(x) /\ RssItem(s, x).id \notin DOMAIN seen}}

WindowIdsOf(s) ==
    {RssItem(s, e).id :
        e \in {x \in Range(HandledEntries(s)) :
                  Titled(x) /\ RssItem(s, x).id \notin DOMAIN seen /\ InWindow(x)}}

WindowIds == UNION {WindowIdsOf(s) : s \in Range(AllFeeds)}

OldIds == UNION {EligibleIds(s) \ WindowIdsOf(s) : s \in Range(AllFeeds)}

\* the publish date of the entry with id k
PubOfId(k) ==
    LET e == CHOOSE x \in UNION {Range(rss_resp[s].entries) : s \in Range(AllFeeds)} :
                 item_id(strip(x.title), strip(x.link)) = k
    IN  parse_feed_date(e)[1]

\* the ids of the items of a list that come from source s, in order
IdsFrom(items, s) ==
    LET own == SelectSeq(items, LAMBDA i : i.source = s)
    IN  [i \in DOMAIN own |-> own[i].id]

\* C6: with r < 10 unseen items inside the window and b outside, the result
\* is the r items, then the min(10 - r, b) most recent of the b, newest first
C6_BackfillToThreshold ==
    pc # "fetch_rss" =>
        LET r == Cardinality(WindowIds)
            b == Cardinality(OldIds)
            n == Len(rss_items)
        IN  r < MIN_RSS_ITEMS =>
              /\ n = Min(MIN_RSS_ITEMS, r + b)
              /\ {rss_items[i].id : i \in 1..r} = WindowIds
              /\ \A i \in (r + 1)..n : rss_items[i].id \in OldIds
              /\ \A i, j \in (r + 1)..n :
                    i < j => PubOfId(rss_items[i].id) >= PubOfId(rss_items[j].id)
              /\ \A k \in OldIds \ Ids(rss_items) : \A i \in (r + 1)..n :
                    PubOfId(k) <= PubOfId(rss_items[i].id)

\* a fetch that had to choose: more old items than the threshold leaves room
\* for, and at least two of them taken
C6_Witness ==
    /\ pc # "fetch_rss"
    /\ Cardinality(WindowIds) < MIN_RSS_ITEMS
    /\ Cardinality(OldIds) > MIN_RSS_ITEMS - Cardinality(WindowIds)
    /\ Len(rss_items) >= Cardinality(WindowIds) + 2

\* C7 as stated: a source whose fetch fails contributes no item
C7_FailedSourceGivesNothing ==
    pc = "evaluate" =>
        /\ \A s \in Range(AllFeeds) :
              rss_resp[s].fail # <<>> => IdsFrom(rss_items, s) = <<>>
        /\ \A s \in Range(CKAN_APIS) :
              ckan_resp[s].fail # <<>> => IdsFrom(ckan_items, s) = <<>>

\* C7 as amended: a failure in one source is caught; the source contributes
\* the items of the entries handled before the failure and no other, every
\* other source is still fetched in full, and the run goes on
C7_FailedSourceKeepsEarlierItems ==
    /\ pc # "crashed"
    /\ pc = "evaluate" =>
        /\ \A s \in Range(AllFeeds) :
              /\ WindowIdsOf(s) \subseteq Range(IdsFrom(rss_items, s))
              /\ Range(IdsFrom(rss_items, s)) \subseteq EligibleIds(s)
              /\ Cardinality(WindowIds) + Cardinality(OldIds) <= MIN_RSS_ITEMS
                    => Range(IdsFrom(rss_items, s)) = EligibleIds(s)
        /\ \A s \in Range(CKAN_APIS) :
              IdsFrom(ckan_items, s) =
                  LET own == SelectSeq(HandledPkgs(s), LAMBDA q :
                                 CkanItem(s, q).id \notin DOMAIN seen)
                  IN  [i \in DOMAIN own |-> CkanItem(s, own[i]).id]

\* a feed and a catalogue that each failed after one item, with items from
\* them and from the sources after them in the result
C7_Witness ==
    /\ pc = "evaluate"
    /\ rss_resp["ProPublica"].fail = <<1>>
    /\ IdsFrom(rss_items, "ProPublica") # <<>>
    /\ IdsFrom(rss_items, "CBC Business") # <<>>
    /\ ckan_resp["Toronto Open Data"].fail = <<1>>
    /\ IdsFrom(ckan_items, "Toronto Open Data") # <<>>
    /\ IdsFrom(ckan_items, "Canada Open Data") # <<>>

-----------------------------------------------------------------------------
(* Properties of the relevance filter *)

\* every item once, in input order, at score 3 with an empty rationale
NeutralCopy(items, results) ==
    /\ Len(results) = Len(items)
    /\ \A i \in DOMAIN items :
          /\ Unscored(results[i]) = items[i]
          /\ results[i].score = JInt(3)
          /\ results[i].why = ""

\* C2: when the call raises or the text is no JSON, the filter returns one
\* item per input item, in input order, each with score 3 and an empty why
C2_FallbackOnFailure ==
    (pc # "filter" /\ (gemini_resp.kind = "raise" \/ gemini_resp.body = <<>>)) =>
        /\ pc = "build"
        /\ NeutralCopy(all_items, scored_items)

\* a text that is no JSON, answered to a prompt of several items
C2_Witness ==
    /\ pc = "build"
    /\ gemini_resp.kind = "text"
    /\ gemini_resp.body = <<>>
    /\ Len(all_items) >= 2
    /\ scored_items # <<>>

\* JSON that is no array of objects with integer indices
Malformed(j) ==
    \/ j.t # "array"
    \/ \E i \in DOMAIN j.v :
          \/ j.v[i].t # "object"
          \/ /\ j.v[i].index # <<>>
             /\ j.v[i].index[1].t \notin {"int", "null"}

\* C3: when the text is JSON of a malformed structure, the filter does not
\* raise and returns every item at score 3 with an empty rationale
C3_FallbackOnMalformed ==
    (/\ pc # "filter"
     /\ gemini_resp.kind = "text"
     /\ gemini_resp.fence # "unbroken"
     /\ gemini_resp.body # <<>>
     /\ Malformed(gemini_resp.body[1])) =>
        /\ pc = "build"
        /\ NeutralCopy(all_items, scored_items)

-----------------------------------------------------------------------------
(* Properties of the page builder *)

\* item["size"] taken off again
Unsized(item) == [k \in DOMAIN item \ {"size"} |-> item[k]]

InSection(item, section) == \E i \in DOMAIN section : Unsized(section[i]) = item

SectionsOf(item) ==
    {n \in {"top_stories", "canadian_data", "worth_a_look"} : InSection(item, page[1][n])}

\* the positions of the list that qualify as top stories on their own
Qualifying == {i \in DOMAIN scored_items :
                  scored_items[i].score.v >= 4 /\ ~scored_items[i].is_canadian_data}

\* the positions the top stories may be topped up from
Candidates == {i \in DOMAIN scored_items :
                  scored_items[i].score.v = 3 /\ ~scored_items[i].is_canadian_data}

\* C5: every item of the list is in at most one section, and in the one the
\* rules name: top stories for a non-Canadian score >= 4, topped up with
\* non-Canadian score-3 items only while fewer than 2 qualify; Canadian data
\* for a Canadian score >= 3; worth a look for a non-Canadian score 3 whose
\* id is not among the top stories; none for a score below 3
C5_Partition ==
    pc = "mark" =>
        /\ \A i \in DOMAIN scored_items :
            LET item == scored_items[i]
                sc == item.score.v
                top == page[1].top_stories
            IN  /\ Cardinality(SectionsOf(item)) <= 1
                /\ sc < 3 => SectionsOf(item) = {}
                /\ "canadian_data" \in SectionsOf(item)
                      <=> item.is_canadian_data /\ sc >= 3
                /\ (~item.is_canadian_data /\ sc >= 4)
                      => "top_stories" \in SectionsOf(item)
                /\ "top_stories" \in SectionsOf(item)
                      => /\ ~item.is_canadian_data
                         /\ sc >= 3
                         /\ sc < 4 => Cardinality(Qualifying) < 2 /\ Len(top) <= 2
                /\ "worth_a_look" \in SectionsOf(item)
                      <=> /\ sc = 3
                          /\ ~item.is_canadian_data
                          /\ item.id \notin {top[j].id : j \in DOMAIN top}
        /\ Cardinality(Qualifying) < 2 =>
              Len(page[1].top_stories) =
                  Min(2, Cardinality(Qualifying) + Cardinality(Candidates))

\* a page with a topped-up top section, a Canadian item and a score-3 item
\* left for worth a look
C5_Witness ==
    /\ pc = "mark"
    /\ \E i \in DOMAIN page[1].top_stories : page[1].top_stories[i].score = JInt(3)
    /\ \E i \in DOMAIN page[1].top_stories : page[1].top_stories[i].score = JInt(4)
    /\ page[1].worth_a_look # <<>>

====
